---- MODULE Spec2Model ----
(***************************************************************************)
(* A model of mice-piper: the dispatcher (MicePiper), the action registry  *)
(* (piper_actions) and the virtual keyboard (PiperKeyboard).               *)
(*                                                                         *)
(* Handlers are written as small-step programs over a pair                 *)
(* (shared state, local frame); one step is one statement of the source.   *)
(* The sequential specification Spec runs a whole handler call in one      *)
(* action; SpecConc lets the watcher threads interleave statement by       *)
(* statement, as Python threads do.                                        *)
(***************************************************************************)
EXTENDS Integers, Sequences, FiniteSets, TLC

VARIABLES
    action_map,        \* MicePiper.action_map : device name -> (key -> action name)
    config_mode,       \* MicePiper.config_mode
    running,           \* MicePiper.running
    last_key_event,    \* MicePiper.last_key_event
    last_mouse_event,  \* MicePiper.last_mouse_event
    last_action,       \* MicePiper.last_action (the pending-cleanup slot), "None" or a name
    config_file,       \* the persisted bindings document (a table), or MissingFile
    kb_keys,           \* virtual keyboard: codes whose last written value is 1 (held)
    kb_frame,          \* virtual keyboard: writes since the last syn()
    frames,            \* watcher -> the frame of the handler call it is running
    cfg,               \* the frame of configure() on the main thread
    hist,              \* history: bookkeeping of calls, used only by the properties
    typed,             \* a call of PiperKeyboard.type_string: its text and what it did
    found,             \* the enumeration of the input devices by PiperMouse / PiperKeyboard
    io                 \* watcher -> its stop flag and its device handle

vars == << action_map, config_mode, running, last_key_event, last_mouse_event,
           last_action, config_file, kb_keys, kb_frame, frames, cfg, hist,
           typed, found, io >>

-----------------------------------------------------------------------------
(* Bounds of the model *)

\* pointer buttons an event may carry: BTN_LEFT .. BTN_LEFT + NumButtons - 1
NumButtons == 2
\* how many bindings configure() may insert in one session
MaxAssign == 1
\* cap of the history counter of cleanup invocations
MaxCount == 2

-----------------------------------------------------------------------------
(* Key and button codes (evdev ecodes) *)

KEY_LEFTCTRL == 29
KEY_LEFTALT == 56
KEY_LEFTMETA == 125
KEY_TAB == 15
KEY_DELETE == 111
KEY_F4 == 62
KEY_A == 30
KEY_C == 46
KEY_D == 32
KEY_S == 31
KEY_T == 20
KEY_V == 47
KEY_X == 45
BTN_LEFT == 272
BTN_RIGHT == 273

Buttons == BTN_LEFT .. (BTN_LEFT + NumButtons - 1)

\* names of the pointer devices found by PiperMouse, and the keyboard watcher
Mice == {"mouseA", "mouseB"}
Kbd == "kbd"
Watchers == Mice \cup {Kbd}

-----------------------------------------------------------------------------
(* PiperEvent, and Python's None *)

PiperEvent(dev, id, pressed) == [device |-> dev, button_id |-> id, pressed |-> pressed]

\* None, where an event is expected
NoneEvent == [device |-> "None", button_id |-> 0, pressed |-> FALSE]

\* the events the pointer watchers deliver
MouseEvents == { PiperEvent(d, b, p) : d \in Mice, b \in Buttons, p \in BOOLEAN }

\* the pointer events of a configure session of the model
ConfigMouseEvents ==
    { PiperEvent("mouseA", BTN_LEFT, TRUE), PiperEvent("mouseA", BTN_LEFT, FALSE),
      PiperEvent("mouseB", BTN_RIGHT, TRUE) }

\* the events the keyboard watcher delivers: the control keys and another key
\* pressed, and a key released
KeyEvents ==
    { PiperEvent(Kbd, b, TRUE) : b \in {KEY_X, KEY_S, KEY_V, KEY_A} }
      \cup { PiperEvent(Kbd, KEY_X, FALSE) }

\* bool(event): a dataclass instance is truthy, None is falsy
Truthy(event) == event # NoneEvent

-----------------------------------------------------------------------------
(* Keys of a device's entry in the binding table: Python ints and strs.     *)
(* A str is a sequence of characters.                                      *)

IntKey(n) == [kind |-> "int", num |-> n, str |-> << >>]
StrKey(s) == [kind |-> "str", num |-> 0, str |-> s]

DigitChar(d) == << "0", "1", "2", "3", "4", "5", "6", "7", "8", "9" >>[d + 1]

RECURSIVE Digits(_)
Digits(n) == IF n < 10 THEN << DigitChar(n) >>
             ELSE Append(Digits(n \div 10), DigitChar(n % 10))

\* str(n) for a non-negative int n
Str(n) == Digits(n)

-----------------------------------------------------------------------------
(* The virtual keyboard: PiperKeyboard.press_key / release_key / click_key  *)
(* as the sequence of UInput operations each performs.                     *)

Write(code, val) == [op |-> "write", name |-> "", code |-> code, val |-> val, ev |-> NoneEvent]
Syn == [op |-> "syn", name |-> "", code |-> 0, val |-> 0, ev |-> NoneEvent]

press_key(code, execute) ==
    << Write(code, 1) >> \o (IF execute THEN << Syn >> ELSE << >>)

release_key(code, execute) ==
    << Write(code, 0) >> \o (IF execute THEN << Syn >> ELSE << >>)

click_key(code, execute) ==
    press_key(code, FALSE) \o release_key(code, execute)

\* the effect of one UInput operation on the device
KbApply(keys, frame, o) ==
    IF o.op = "syn"
    THEN [keys |-> keys, frame |-> << >>]
    ELSE [keys |-> IF o.val = 1 THEN keys \cup {o.code} ELSE keys \ {o.code},
          frame |-> Append(frame, << o.code, o.val >>)]

-----------------------------------------------------------------------------
(* piper_actions.py: the run and cleanup functions.  Each is given as the   *)
(* exception it raises ("None" for none) and the UInput operations it       *)
(* performs, for the event it is called with.                              *)

Does(ops) == [exc |-> "None", ops |-> ops]
Raises(exc) == [exc |-> exc, ops |-> << >>]

\* "if event.pressed:" guarding a body; run is never called with None
IfPressed(event, ops) == IF event.pressed THEN Does(ops) ELSE Does(<< >>)

action_copy_run(event) ==
    IfPressed(event, press_key(KEY_LEFTCTRL, FALSE) \o click_key(KEY_C, FALSE)
                     \o release_key(KEY_LEFTCTRL, TRUE))

action_paste_run(event) ==
    IfPressed(event, press_key(KEY_LEFTCTRL, FALSE) \o click_key(KEY_V, FALSE)
                     \o release_key(KEY_LEFTCTRL, TRUE))

action_select_all(event) ==
    IfPressed(event, press_key(KEY_LEFTCTRL, FALSE) \o click_key(KEY_A, FALSE)
                     \o release_key(KEY_LEFTCTRL, TRUE))

action_save(event) ==
    IfPressed(event, press_key(KEY_LEFTCTRL, FALSE) \o click_key(KEY_S, FALSE)
                     \o release_key(KEY_LEFTCTRL, TRUE))

action_delete_run(event) ==
    IfPressed(event, click_key(KEY_DELETE, TRUE))

action_menu_run(event) ==
    IfPressed(event, release_key(KEY_LEFTALT, TRUE) \o press_key(KEY_LEFTALT, FALSE)
                     \o click_key(KEY_TAB, TRUE))

\* "if event.pressed or not event:" reads event.pressed first, which raises
\* AttributeError when event is None
action_menu_cleanup(event) ==
    IF event = NoneEvent THEN Raises("AttributeError")
    ELSE IF event.pressed \/ ~Truthy(event)
         THEN Does(release_key(KEY_LEFTALT, TRUE))
         ELSE Does(<< >>)

action_menu_close_current_window(event) ==
    IfPressed(event, press_key(KEY_LEFTALT, FALSE) \o click_key(KEY_F4, FALSE)
                     \o release_key(KEY_LEFTALT, TRUE))

action_minimise_all(event) ==
    IfPressed(event, press_key(KEY_LEFTMETA, FALSE) \o click_key(KEY_D, FALSE)
                     \o release_key(KEY_LEFTMETA, TRUE))

action_new_terminal(event) ==
    IfPressed(event, press_key(KEY_LEFTCTRL, FALSE) \o press_key(KEY_LEFTALT, FALSE)
                     \o click_key(KEY_T, FALSE) \o release_key(KEY_LEFTALT, FALSE)
                     \o release_key(KEY_LEFTCTRL, TRUE))

\* "if event.pressed and data and 'text' in data": the dispatcher passes no
\* data, so data is None and nothing is typed
action_type_custom_text(event) == Does(<< >>)

PiperAction(name, run, cleanup) == [name |-> name, run |-> run, cleanup |-> cleanup]

action_list == <<
    PiperAction("Copy", "action_copy_run", "None"),
    PiperAction("Paste", "action_paste_run", "None"),
    PiperAction("Select all", "action_select_all", "None"),
    PiperAction("Save", "action_save", "None"),
    PiperAction("Delete", "action_delete_run", "None"),
    PiperAction("Type Custom Text", "action_type_custom_text", "None"),
    PiperAction("Menu", "action_menu_run", "action_menu_cleanup"),
    PiperAction("Close current window", "action_menu_close_current_window", "None"),
    PiperAction("Minimise all windows", "action_minimise_all", "None"),
    PiperAction("New terminal", "action_new_terminal", "None") >>

ActionNames == { action_list[i].name : i \in DOMAIN action_list }

\* piper_actions = {action.name: action for action in action_list}
piper_actions ==
    [n \in ActionNames |-> CHOOSE a \in { action_list[i] : i \in DOMAIN action_list } : a.name = n]

\* calling the function object stored in a PiperAction
CallFn(fn, event) ==
    CASE fn = "action_copy_run" -> action_copy_run(event)
      [] fn = "action_paste_run" -> action_paste_run(event)
      [] fn = "action_select_all" -> action_select_all(event)
      [] fn = "action_save" -> action_save(event)
      [] fn = "action_delete_run" -> action_delete_run(event)
      [] fn = "action_type_custom_text" -> action_type_custom_text(event)
      [] fn = "action_menu_run" -> action_menu_run(event)
      [] fn = "action_menu_cleanup" -> action_menu_cleanup(event)
      [] fn = "action_menu_close_current_window" -> action_menu_close_current_window(event)
      [] fn = "action_minimise_all" -> action_minimise_all(event)
      [] fn = "action_new_terminal" -> action_new_terminal(event)
      [] OTHER -> Raises("TypeError")

\* does the slot value a (a name or "None") hold an action that declares a cleanup
DeclaresCleanup(a) == a \in ActionNames /\ piper_actions[a].cleanup # "None"

-----------------------------------------------------------------------------
(* Frames and the shared state as one record, for the step functions        *)

Call(op, name, event) == [op |-> op, name |-> name, code |-> 0, val |-> 0, ev |-> event]

\* a watcher blocked in device.read_loop(); of a call under way, held is the
\* keys the running function has pressed and neither released nor flushed
IdleFrame == [pc |-> "idle", event |-> NoneEvent, action |-> "None",
              ops |-> << >>, trace |-> << >>, pre |-> "None", exc |-> "None",
              held |-> {}]

\* a watcher thread ended by an exception its run() does not catch
DeadFrame == [IdleFrame EXCEPT !.pc = "dead"]

\* the frame of a handler call entered at pc with the event; pre is the slot
\* on arrival
EnterFrame(pc, event, slot) ==
    [IdleFrame EXCEPT !.pc = pc, !.event = event, !.pre = slot]

Shared == [action_map |-> action_map, config_mode |-> config_mode,
           running |-> running, last_key_event |-> last_key_event,
           last_mouse_event |-> last_mouse_event, last_action |-> last_action,
           config_file |-> config_file, kb_keys |-> kb_keys,
           kb_frame |-> kb_frame, hist |-> hist]

Result(S, L) == [s |-> S, l |-> L]

Goto(S, L, pc) == Result(S, [L EXCEPT !.pc = pc])

\* an exception leaves the handler
Throw(S, L, exc) == Result(S, [L EXCEPT !.pc = "raised", !.exc = exc, !.ops = << >>])

\* on_k_action's "except AttributeError: pass"
Caught(S, L, exc) == Result(S, [L EXCEPT !.pc = "done", !.exc = exc, !.ops = << >>])

\* enter the body of a called function: its operations run at pc body, and
\* control continues at pc next when none is left
Enter(S, L, ops, body, next) ==
    Result(S, [L EXCEPT !.ops = ops, !.pc = IF ops = << >> THEN next ELSE body])

\* UInput.write / UInput.syn: the next operation of the running function
ExecOp(S, L, next) ==
    LET o == Head(L.ops)
        r == KbApply(S.kb_keys, S.kb_frame, o)
        held == IF o.op = "syn" THEN {}
                ELSE IF o.val = 1 THEN L.held \cup {o.code} ELSE L.held \ {o.code}
    IN  Enter([S EXCEPT !.kb_keys = r.keys, !.kb_frame = r.frame],
              [L EXCEPT !.trace = Append(@, o), !.held = held], Tail(L.ops), L.pc, next)

Min(a, b) == IF a < b THEN a ELSE b

\* history of a cleanup invocation by watcher w
NoteCleanup(S, w) ==
    [S EXCEPT !.hist.cleanups = Min(@ + 1, MaxCount),
              !.hist.invoked = @ \cup {w}]

\* history of a run invocation
NoteRun(S, name, event) ==
    [S EXCEPT !.hist.cleanups = 0, !.hist.last_run = name,
              !.hist.trigger = IF DeclaresCleanup(name) THEN event ELSE NoneEvent,
              !.hist.prev_cleanups =
                  IF S.hist.trigger.pressed THEN S.hist.cleanups ELSE -1,
              !.hist.alt_at_run = KEY_LEFTALT \in S.kb_keys]

-----------------------------------------------------------------------------
(* MicePiper.on_m_action, statement by statement                            *)

\* line 49
m49(S, L, w) == Goto([S EXCEPT !.last_mouse_event = L.event], L, "m50")

\* line 50, "self.last_action and ...": first read of the slot
m50(S, L, w) ==
    IF S.last_action # "None" THEN Goto(S, L, "m50c") ELSE Goto(S, L, "m53")

\* mutant of m50c: the cleanup is called for a pressed event only
m50c_PressedOnly(S, L, w) ==
    IF S.last_action = "None" THEN Throw(S, L, "AttributeError")
    ELSE IF piper_actions[S.last_action].cleanup # "None" /\ L.event.pressed
         THEN Goto(S, L, "m51")
    ELSE Goto(S, L, "m53")

\* line 50, "... and self.last_action.cleanup": second read of the slot
m50c(S, L, w) ==
    IF S.last_action = "None" THEN Throw(S, L, "AttributeError")
    ELSE IF piper_actions[S.last_action].cleanup # "None" THEN Goto(S, L, "m51")
    ELSE Goto(S, L, "m53")

\* line 51: self.last_action.cleanup(self.keyboard, event), third read of the slot
m51(S, L, w) ==
    LET a == S.last_action IN
    IF a = "None" THEN Throw(S, L, "AttributeError")
    ELSE IF piper_actions[a].cleanup = "None" THEN Throw(S, L, "TypeError")
    ELSE LET r == CallFn(piper_actions[a].cleanup, L.event)
             S1 == NoteCleanup(S, w)
             L1 == [L EXCEPT !.trace = Append(@, Call("cleanup", a, L.event))]
         IN  IF r.exc # "None" THEN Throw(S1, L1, r.exc)
             ELSE Enter(S1, L1, r.ops, "m51x", "m52")

\* mutant of m52: the slot is not cleared after the cleanup
m52_NoClear(S, L, w) == Goto(S, L, "m53")

\* line 52: self.last_action = None
m52(S, L, w) ==
    Goto([S EXCEPT !.last_action = "None"],
         [L EXCEPT !.trace = Append(@, Call("clear", "None", NoneEvent))], "m53")

\* mutant of FindButton: only the numeric form is tried
FindButton_IntOnly(entry, id) ==
    IF IntKey(id) \in DOMAIN entry THEN IntKey(id) ELSE StrKey(<< >>)

\* lines 56-62: the key under which the button is found in the device's entry
FindButton(entry, id) ==
    IF IntKey(id) \in DOMAIN entry THEN IntKey(id)
    ELSE IF StrKey(Str(id)) \in DOMAIN entry THEN StrKey(Str(id))
    ELSE StrKey(<< >>)

\* mutant of m53: no "else: return" for a button that is not found
m53_NoElse(S, L, w) ==
    IF S.config_mode THEN Goto(S, L, "done")
    ELSE LET L1 == [L EXCEPT !.trace = Append(@, Call("lookup", "None", L.event))] IN
         IF L.event.device \notin DOMAIN S.action_map THEN Goto(S, L1, "done")
         ELSE LET entry == S.action_map[L.event.device]
                  button_id == FindButton(entry, L.event.button_id)
              IN  IF button_id \notin DOMAIN entry THEN Throw(S, L1, "KeyError")
                  ELSE IF entry[button_id] \notin DOMAIN piper_actions
                       THEN Goto(S, L1, "done")
                       ELSE Goto(S, [L1 EXCEPT !.action = entry[button_id]], "m67")

\* mutant of m53: the registry is indexed without the membership test
m53_NoRegistryTest(S, L, w) ==
    IF S.config_mode THEN Goto(S, L, "done")
    ELSE LET L1 == [L EXCEPT !.trace = Append(@, Call("lookup", "None", L.event))] IN
         IF L.event.device \notin DOMAIN S.action_map THEN Goto(S, L1, "done")
         ELSE LET entry == S.action_map[L.event.device]
                  button_id == FindButton(entry, L.event.button_id)
              IN  IF button_id \notin DOMAIN entry THEN Goto(S, L1, "done")
                  ELSE IF entry[button_id] \notin DOMAIN piper_actions
                       THEN Throw(S, L1, "KeyError")
                       ELSE Goto(S, [L1 EXCEPT !.action = entry[button_id]], "m67")

\* mutant of m53: the lookup is made in configure mode too
m53_NoModeTest(S, L, w) ==
    LET L1 == [L EXCEPT !.trace = Append(@, Call("lookup", "None", L.event))] IN
    IF L.event.device \notin DOMAIN S.action_map THEN Goto(S, L1, "done")
    ELSE LET entry == S.action_map[L.event.device]
             button_id == FindButton(entry, L.event.button_id)
         IN  IF button_id \notin DOMAIN entry THEN Goto(S, L1, "done")
             ELSE IF entry[button_id] \notin DOMAIN piper_actions
                  THEN Goto(S, L1, "done")
                  ELSE Goto(S, [L1 EXCEPT !.action = entry[button_id]], "m67")

\* A value json.load put where a dict is expected is kept as a function of one
\* reserved argument, the value's repr: for action_map itself the int 5 and
\* the list ['mouseA'], for a device's entry the int 5 and the list [272].
NotADict(repr) == [d \in {repr} |-> << >>]
NotAnEntry(repr) == [k \in {[kind |-> "py", num |-> 0, str |-> << repr >>]} |-> "None"]

IsDict(table) == DOMAIN table \cap {"5", "['mouseA']"} = {}
IsEntry(entry) == \A k \in DOMAIN entry : k.kind # "py"

\* lines 54-57 when action_map is no dict: "name not in 5" raises TypeError;
\* "name not in ['mouseA']" is an element test, and for the element line 57
\* subscripts the list with a str, which raises TypeError
m54_NotADict(S, L, w) ==
    IF S.action_map = NotADict("5") THEN Throw(S, L, "TypeError")
    ELSE IF L.event.device # "mouseA" THEN Goto(S, L, "done")
    ELSE Throw(S, L, "TypeError")

\* lines 57-63 when the device's entry is no dict: "button_id in 5" raises
\* TypeError; "button_id in [272]" is an element test: for 272 line 63
\* subscripts the one-element list with 272, which raises IndexError, and for
\* another id neither form is found
m57_NotADict(S, L, w, entry) ==
    IF entry = NotAnEntry("5") THEN Throw(S, L, "TypeError")
    ELSE IF L.event.button_id = BTN_LEFT THEN Throw(S, L, "IndexError")
    ELSE Goto(S, L, "done")

\* lines 53-66: binding lookup
m53(S, L, w) ==
    IF S.config_mode THEN Goto(S, L, "done")
    ELSE LET L1 == [L EXCEPT !.trace = Append(@, Call("lookup", "None", L.event))] IN
         IF ~IsDict(S.action_map) THEN m54_NotADict(S, L1, w)
         ELSE IF L.event.device \notin DOMAIN S.action_map THEN Goto(S, L1, "done")
         ELSE LET entry == S.action_map[L.event.device]
                  button_id == FindButton(entry, L.event.button_id)
              IN  IF ~IsEntry(entry) THEN m57_NotADict(S, L1, w, entry)
                  ELSE IF button_id \notin DOMAIN entry THEN Goto(S, L1, "done")
                  ELSE IF entry[button_id] \notin DOMAIN piper_actions
                       THEN Goto(S, L1, "done")
                       ELSE Goto(S, [L1 EXCEPT !.action = entry[button_id]], "m67")

\* line 67: action.run(self.keyboard, event)
m67(S, L, w) ==
    LET r == CallFn(piper_actions[L.action].run, L.event)
        S1 == NoteRun(S, L.action, L.event)
        L1 == [L EXCEPT !.trace = Append(@, Call("run", L.action, L.event))]
    IN  IF r.exc # "None" THEN Throw(S1, L1, r.exc)
        ELSE Enter(S1, L1, r.ops, "m67x", "m68")

\* mutant of m68: the action that ran is not recorded
m68_NoRecord(S, L, w) ==
    Goto([S EXCEPT !.hist.invoked = {}],
         [L EXCEPT !.trace = Append(@, Call("set", L.action, NoneEvent))], "done")

\* line 68: self.last_action = action
m68(S, L, w) ==
    Goto([S EXCEPT !.last_action = L.action,
                   !.hist.overbooked = @ \/ DeclaresCleanup(S.last_action),
                   !.hist.invoked = {}],
         [L EXCEPT !.trace = Append(@, Call("set", L.action, NoneEvent))], "done")

-----------------------------------------------------------------------------
(* MicePiper.on_k_action, statement by statement                            *)

\* line 72, "self.last_action is not None and ...": first read of the slot
k72(S, L, w) ==
    IF S.last_action # "None" THEN Goto(S, L, "k72c") ELSE Goto(S, L, "k75")

\* line 72, "... and self.last_action.cleanup is not None": second read
k72c(S, L, w) ==
    IF S.last_action = "None" THEN Caught(S, L, "AttributeError")
    ELSE IF piper_actions[S.last_action].cleanup # "None" THEN Goto(S, L, "k73")
    ELSE Goto(S, L, "k75")

\* line 73: self.last_action.cleanup(self.keyboard, None)
k73(S, L, w) ==
    LET a == S.last_action IN
    IF a = "None" THEN Caught(S, L, "AttributeError")
    ELSE IF piper_actions[a].cleanup = "None" THEN Throw(S, L, "TypeError")
    ELSE LET r == CallFn(piper_actions[a].cleanup, NoneEvent)
             S1 == NoteCleanup(S, w)
             L1 == [L EXCEPT !.trace = Append(@, Call("cleanup", a, NoneEvent))]
         IN  IF r.exc = "AttributeError"
             THEN Caught(S1, L1, r.exc)
             ELSE IF r.exc # "None" THEN Throw(S1, L1, r.exc)
             ELSE Enter(S1, L1, r.ops, "k73x", "k74")

\* line 74: self.last_action = None
k74(S, L, w) ==
    Goto([S EXCEPT !.last_action = "None"],
         [L EXCEPT !.trace = Append(@, Call("clear", "None", NoneEvent))], "k75")

\* line 75: if self.config_mode and event.pressed
k75(S, L, w) ==
    IF S.config_mode /\ L.event.pressed THEN Goto(S, L, "k76") ELSE Goto(S, L, "done")

\* line 76: self.last_key_event = event
k76(S, L, w) == Goto([S EXCEPT !.last_key_event = L.event], L, "k77")

\* json.dump of the table: an int key is written as its decimal string
JsonKey(k) == IF k.kind = "int" THEN StrKey(Str(k.num)) ELSE k

\* json.dump then json.load of a device's entry; should an int key and its
\* string both be present, the document holds the member twice and the load
\* keeps one of them
JsonEntry(entry) ==
    [k \in { JsonKey(j) : j \in DOMAIN entry } |->
        IF k \in DOMAIN entry THEN entry[k]
        ELSE entry[CHOOSE j \in DOMAIN entry : JsonKey(j) = k]]

\* a persisted document {"action_map": table}, and no file at all
Document(table) == [kind |-> "doc", action_map |-> table]
MissingFile == [kind |-> "missing", action_map |-> << >>]

\* save_config (lines 105-108)
save_config(S) ==
    [S EXCEPT !.config_file =
        Document([d \in DOMAIN S.action_map |-> JsonEntry(S.action_map[d])])]

\* lines 77-85: the control keys
k77(S, L, w) ==
    IF L.event.button_id = KEY_X THEN Goto([S EXCEPT !.running = FALSE], L, "done")
    ELSE IF L.event.button_id = KEY_S THEN Goto(save_config(S), L, "done")
    ELSE Goto(S, L, "done")

-----------------------------------------------------------------------------
(* One step of a handler call of watcher w, and a whole call                *)

Step(S, L, w) ==
    CASE L.pc = "m49" -> m49(S, L, w)
      [] L.pc = "m50" -> m50(S, L, w)
      [] L.pc = "m50c" -> m50c(S, L, w)
      [] L.pc = "m51" -> m51(S, L, w)
      [] L.pc = "m51x" -> ExecOp(S, L, "m52")
      [] L.pc = "m52" -> m52(S, L, w)
      [] L.pc = "m53" -> m53(S, L, w)
      [] L.pc = "m67" -> m67(S, L, w)
      [] L.pc = "m67x" -> ExecOp(S, L, "m68")
      [] L.pc = "m68" -> m68(S, L, w)
      [] L.pc = "k72" -> k72(S, L, w)
      [] L.pc = "k72c" -> k72c(S, L, w)
      [] L.pc = "k73" -> k73(S, L, w)
      [] L.pc = "k73x" -> ExecOp(S, L, "k74")
      [] L.pc = "k74" -> k74(S, L, w)
      [] L.pc = "k75" -> k75(S, L, w)
      [] L.pc = "k76" -> k76(S, L, w)
      [] L.pc = "k77" -> k77(S, L, w)

Returned(L) == L.pc \in {"done", "raised"}

RECURSIVE RunToEnd(_, _, _)
RunToEnd(S, L, w) ==
    IF Returned(L) THEN Result(S, L)
    ELSE LET r == Step(S, L, w) IN RunToEnd(r.s, r.l, w)

-----------------------------------------------------------------------------
(* Construction: MicePiper.__init__ and read_config                         *)

EmptyTable == << >>

\* a file that exists and cannot be opened, a file that is no JSON text, and a
\* file of a JSON text for which json.load returns the value given (by its
\* repr), which is no dict with a key 'action_map'
UnopenableFile == [kind |-> "unopenable", action_map |-> << >>]
GarbageFile == [kind |-> "garbage", action_map |-> << >>]
JsonFile(value) == [kind |-> "json", action_map |-> << >>, value |-> value]

JsonValues == {"None", "False", "True", "0", "5", "''", "'action_map'", "'text'",
               "[]", "['action_map']", "[1]", "{}", "{'x': 1}"}

\* bool(config)
JsonTruthy(value) == value \notin {"None", "False", "0", "''", "[]", "{}"}

\* '"action_map" in config' for a truthy value: True, False, or TypeError for
\* a bool or a number
JsonHolds(value) ==
    CASE value \in {"True", "5"} -> "TypeError"
      [] value \in {"'action_map'", "['action_map']"} -> "True"
      [] OTHER -> "False"

Loaded(table) == [exc |-> "None", action_map |-> table]
Failed(exc) == [exc |-> exc, action_map |-> EmptyTable]

\* read_config (lines 89-103): the table self.action_map holds after the call,
\* or the exception that leaves it.  Line 92 returns for a missing file; line
\* 97 opens the file outside any handler; json.load is under
\* suppress(Exception), config staying None when it raises; line 102 tests
\* 'config and "action_map" in config' and line 103 subscripts config, which
\* raises TypeError for a str and for a list.
read_config(file) ==
    IF file.kind = "missing" THEN Loaded(EmptyTable)
    ELSE IF file.kind = "unopenable" THEN Failed("OSError")
    ELSE IF file.kind = "garbage" THEN Loaded(EmptyTable)
    ELSE IF file.kind = "json"
         THEN IF ~JsonTruthy(file.value) \/ JsonHolds(file.value) = "False"
              THEN Loaded(EmptyTable)
              ELSE Failed("TypeError")
    ELSE Loaded(file.action_map)

\* history: disp is the last handler call that ended (its watcher, the slot on
\* its arrival, the calls and device operations it made in order, the exception
\* it met); last_run is the action last run, trigger its event if it declares
\* a cleanup, alt_at_run whether LEFTALT was held when that run began;
\* cleanups counts the cleanup invocations since the last run, prev_cleanups
\* those the action run before the last one had got when the last run began
\* (-1 unless it declares a cleanup and ran on a press); invoked holds the watchers that invoked the
\* cleanup of the obligation now recorded; overbooked tells that an action was
\* recorded over an action with a cleanup; double and raced tell the two races
\* of overlapping handler calls; after_error tells that disp ended after the
\* last failure of a device read
NoDispatch == [w |-> "None", event |-> NoneEvent, pre |-> "None", trace |-> << >>,
               exc |-> "None", returned |-> FALSE]

InitHist == [cleanups |-> 0, prev_cleanups |-> -1, invoked |-> {}, double |-> FALSE,
             raced |-> FALSE, mixed |-> FALSE, overbooked |-> FALSE, last_run |-> "None",
             trigger |-> NoneEvent, alt_at_run |-> FALSE, disp |-> NoDispatch,
             after_error |-> FALSE]

CfgFrame(pc, n) == [pc |-> pc, m_event |-> NoneEvent, action |-> "None", assigned |-> n,
                    exc |-> "None"]

\* the fields of MicePiper(config_mode = mode) with the file as persisted,
\* action_map being the table
Dispatcher(mode, file, table) ==
    /\ action_map = table
    /\ config_mode = mode
    /\ running = TRUE
    /\ last_key_event = NoneEvent
    /\ last_mouse_event = NoneEvent
    /\ last_action = "None"
    /\ config_file = file
    /\ kb_keys = {}
    /\ kb_frame = << >>
    /\ frames = [w \in Watchers |-> IdleFrame]
    /\ cfg = CfgFrame(IF mode THEN "c131" ELSE "off", 0)
    /\ hist = InitHist

\* no type_string call under way
NoText == [text |-> << >>, state |-> "none", log |-> << >>, exc |-> "None"]

\* the enumeration has ended with the devices of the model found
Enumerated == [devices |-> << >>, who |-> "done", i |-> 0, mice |-> {}, keyboards |-> {},
               exc |-> "None"]

\* DeviceWatcher.__init__ (lines 25-33): the flag is clear; the device is
\* open; released counts the releases of the handle, stops the stop() calls
\* made, raised tells that one of them raised, failed that a read of the
\* device raised OSError
Watching == [stop_flag |-> FALSE, fd |-> "open", released |-> 0, stops |-> 0,
             raised |-> FALSE, failed |-> FALSE, raw |-> << >>, forwarded |-> << >>]

\* the state after MicePiper(config_mode = mode): the devices enumerated and
\* every watcher started
Constructed(mode, file, table) ==
    /\ Dispatcher(mode, file, table)
    /\ typed = NoText
    /\ found = Enumerated
    /\ io = [w \in Watchers |-> Watching]

\* action names a persisted document may hold: registry names and an unknown one
FileNames == {"Menu", "Copy", "Bogus"}

\* the entries a device may have in a persisted document: JSON member names
\* are strings
FileEntries ==
    UNION { [ { StrKey(Str(b)) : b \in bs } -> FileNames ] :
              bs \in SUBSET {BTN_LEFT, BTN_RIGHT} }

\* the persisted documents the model starts from: bindings for mouseA only,
\* for no device, or no file
Files ==
    {MissingFile, Document(EmptyTable)}
      \cup { Document([d \in {"mouseA"} |-> e]) : e \in FileEntries }

\* the documents a configure session of the model starts from
ConfigFiles == {MissingFile, Document([d \in {"mouseA"} |-> [k \in {StrKey(Str(BTN_LEFT))} |-> "Copy"]])}

\* read_config raised (line 26): the exception leaves __init__ and the main
\* thread, before any watcher is made
StartupFailed(mode, file, exc) ==
    /\ action_map = EmptyTable
    /\ config_mode = mode
    /\ running = TRUE
    /\ last_key_event = NoneEvent
    /\ last_mouse_event = NoneEvent
    /\ last_action = "None"
    /\ config_file = file
    /\ kb_keys = {}
    /\ kb_frame = << >>
    /\ frames = [w \in Watchers |-> IdleFrame]
    /\ cfg = [CfgFrame("raised", 0) EXCEPT !.exc = exc]
    /\ hist = InitHist
    /\ typed = NoText
    /\ found = [Enumerated EXCEPT !.who = "mouse"]
    /\ io = [w \in Watchers |-> Watching]

Construct(mode, file) ==
    \E r \in { read_config(file) } :
        IF r.exc = "None" THEN Constructed(mode, file, r.action_map)
        ELSE StartupFailed(mode, file, r.exc)

Init == \/ \E file \in Files : Construct(FALSE, file)
        \/ \E file \in ConfigFiles : Construct(TRUE, file)

-----------------------------------------------------------------------------
(* The watcher threads calling the handlers                                 *)

\* the watchers deliver events while the process lives: in run mode always,
\* in configure mode until configure() has returned
Alive == cfg.pc \notin {"returned", "raised"}

\* take the variables from the result of a step of watcher w; a handler that
\* returned leaves its watcher in read_loop(), one that raised ends the thread
Commit(r, w) ==
    /\ action_map' = r.s.action_map
    /\ config_mode' = r.s.config_mode
    /\ running' = r.s.running
    /\ last_key_event' = r.s.last_key_event
    /\ last_mouse_event' = r.s.last_mouse_event
    /\ last_action' = r.s.last_action
    /\ config_file' = r.s.config_file
    /\ kb_keys' = r.s.kb_keys
    /\ kb_frame' = r.s.kb_frame
    /\ frames' = [frames EXCEPT ![w] =
                    IF r.l.pc = "raised" THEN DeadFrame
                    ELSE IF r.l.pc = "done" THEN IdleFrame
                    ELSE r.l]

\* the record of a handler call that ended; the event is kept for a pointer
Ended(w, L) == [w |-> w, event |-> IF w = Kbd THEN NoneEvent ELSE L.event,
                pre |-> L.pre, trace |-> L.trace, exc |-> L.exc,
                returned |-> L.pc = "done"]

\* DeviceWatcher.run, line 51: self.callback(piper_event), the callback being
\* on_m_action for a pointer and on_k_action for a keyboard
EntryPc(w) == IF w = Kbd THEN "k72" ELSE "m49"

EventsOf(w) ==
    { e \in (IF config_mode THEN ConfigMouseEvents ELSE MouseEvents) \cup KeyEvents :
        e.device = w }

\* DeviceWatcher.run, lines 38-40: the watcher is blocked in read_loop() of an
\* open device and its stop flag is clear
Listening(w) == frames[w].pc = "idle" /\ ~io[w].stop_flag /\ io[w].fd = "open"

\* line 51, self.callback(piper_event): a whole handler call of watcher w
Callback(w, event) ==
    /\ \E r \in { RunToEnd(Shared, EnterFrame(EntryPc(w), event, last_action), w) } :
          /\ Commit(r, w)
          /\ hist' = [r.s.hist EXCEPT !.disp = Ended(w, r.l), !.invoked = {},
                                      !.after_error = \E o \in Watchers : io[o].failed]
    /\ UNCHANGED << cfg, typed, found >>

\* sequential dispatch: an event is read, found to be a key event with the
\* stop flag clear, and handled, all at once
Dispatch(w, event) ==
    /\ Alive
    /\ Listening(w)
    /\ Callback(w, event)
    /\ UNCHANGED io

on_m_action == \E w \in Mice : \E event \in EventsOf(w) : Dispatch(w, event)

on_k_action == \E event \in EventsOf(Kbd) : Dispatch(Kbd, event)

-----------------------------------------------------------------------------
(* MicePiper.configure on the main thread, statement by statement           *)

\* the answers get_action_config() may return: a registry name, or None on 'C'
ChoiceNames == {"Menu", "Copy"}

IsExitKey(event) == event # NoneEvent /\ event.button_id = KEY_X

\* lines 151-153: self.action_map[device_name][str(m_event.button_id)] = action
Assign(table, device_name, id, action) ==
    LET entry == IF device_name \in DOMAIN table THEN table[device_name] ELSE << >>
        key == StrKey(Str(id))
    IN  [d \in DOMAIN table \cup {device_name} |->
            IF d = device_name
            THEN [k \in DOMAIN entry \cup {key} |-> IF k = key THEN action ELSE entry[k]]
            ELSE table[d]]

\* line 131
c131 == /\ cfg.pc = "c131"
        /\ last_mouse_event' = NoneEvent
        /\ cfg' = [cfg EXCEPT !.pc = "c132"]
        /\ UNCHANGED << action_map, last_key_event >>

\* line 132
c132 == /\ cfg.pc = "c132"
        /\ last_key_event' = NoneEvent
        /\ cfg' = [cfg EXCEPT !.pc = "c136"]
        /\ UNCHANGED << action_map, last_mouse_event >>

\* lines 135-137: after the sleep, return on 'X'
c136 == /\ cfg.pc = "c136"
        /\ cfg' = [cfg EXCEPT !.pc = IF IsExitKey(last_key_event) THEN "returned" ELSE "c138"]
        /\ UNCHANGED << action_map, last_key_event, last_mouse_event >>

\* line 138: if self.last_mouse_event
c138 == /\ cfg.pc = "c138"
        /\ cfg' = [cfg EXCEPT !.pc = IF Truthy(last_mouse_event) THEN "c139" ELSE "c136"]
        /\ UNCHANGED << action_map, last_key_event, last_mouse_event >>

\* lines 139-140
c139 == /\ cfg.pc = "c139"
        /\ last_key_event' = NoneEvent
        /\ cfg' = [cfg EXCEPT !.pc = "c143"]
        /\ UNCHANGED << action_map, last_mouse_event >>

\* line 143
c143 == /\ cfg.pc = "c143"
        /\ cfg' = [cfg EXCEPT !.pc = "c144", !.m_event = last_mouse_event]
        /\ UNCHANGED << action_map, last_key_event, last_mouse_event >>

\* lines 144-145: break out of the loop, which ends configure()
c144 == /\ cfg.pc = "c144"
        /\ cfg' = [cfg EXCEPT !.pc =
                     IF cfg.m_event = NoneEvent \/ IsExitKey(last_key_event)
                     THEN "returned" ELSE "c149"]
        /\ UNCHANGED << action_map, last_key_event, last_mouse_event >>

\* line 149: action = self.get_action_config()
c149 == /\ cfg.pc = "c149"
        /\ \E action \in ChoiceNames \cup {"None"} :
              /\ action # "None" => cfg.assigned < MaxAssign
              /\ cfg' = [cfg EXCEPT !.pc = "c150", !.action = action]
        /\ UNCHANGED << action_map, last_key_event, last_mouse_event >>

\* lines 150-154
c150 == /\ cfg.pc = "c150"
        /\ IF cfg.action # "None"
           THEN /\ action_map' = Assign(action_map, cfg.m_event.device,
                                        cfg.m_event.button_id, cfg.action)
                /\ cfg' = CfgFrame("c131", cfg.assigned + 1)
           ELSE /\ cfg' = CfgFrame("c131", cfg.assigned)
                /\ UNCHANGED action_map
        /\ UNCHANGED << last_key_event, last_mouse_event >>

configure ==
    /\ c131 \/ c132 \/ c136 \/ c138 \/ c139 \/ c143 \/ c144 \/ c149 \/ c150
    /\ UNCHANGED << config_mode, running, last_action, config_file, kb_keys,
                    kb_frame, frames, hist, typed, found, io >>

\* __init__, lines 35-38: configure() has returned and set_service_state(True)
\* starts the service, a new MicePiper in run mode that reads the document as
\* it is persisted now
ServiceStart ==
    /\ cfg.pc = "returned"
    /\ action_map' = read_config(config_file).action_map
    /\ config_mode' = FALSE
    /\ running' = TRUE
    /\ last_key_event' = NoneEvent
    /\ last_mouse_event' = NoneEvent
    /\ last_action' = "None"
    /\ kb_keys' = {}
    /\ kb_frame' = << >>
    /\ frames' = [w \in Watchers |-> IdleFrame]
    /\ cfg' = CfgFrame("off", 0)
    /\ hist' = InitHist
    /\ UNCHANGED << config_file, typed, found, io >>

-----------------------------------------------------------------------------
(* Sequential dispatch: handler calls do not overlap                        *)

Next == on_m_action \/ on_k_action \/ configure \/ ServiceStart

Spec == Init /\ [][Next]_vars

\* The binding table is a public attribute typed Dict[str, Dict[str, str]] whose
\* lookup accepts int keys as well: SpecKeys also starts from tables assigned
\* to it directly, holding int keys, str keys or both.
KeyNames == {"Menu", "Copy"}

KeyEntries ==
    UNION { [ ks -> KeyNames ] :
              ks \in SUBSET {IntKey(BTN_LEFT), StrKey(Str(BTN_LEFT)), IntKey(BTN_RIGHT)} }

InitKeys == \/ Init
            \/ \E e \in KeyEntries :
                  Constructed(FALSE, MissingFile, [d \in {"mouseA"} |-> e])

SpecKeys == InitKeys /\ [][Next]_vars

-----------------------------------------------------------------------------
(* Concurrent dispatch: every watcher is a thread (DeviceWatcher extends    *)
(* threading.Thread) and the handlers take no lock, so the calls of         *)
(* different watchers interleave statement by statement.                    *)

\* the binding table of the concurrent runs: both pointers bound
ConcFile ==
    Document([d \in Mice |-> [k \in {StrKey(Str(BTN_LEFT)), StrKey(Str(BTN_RIGHT))} |->
                                 IF k = StrKey(Str(BTN_LEFT)) THEN "Menu" ELSE "Copy"]])

InitConc == Construct(FALSE, ConcFile)

\* a call that has invoked a cleanup and has not yet cleared the slot
InCleanup(w) == frames[w].pc \in {"m51x", "m52", "k73x", "k74"}

\* the events of the concurrent runs: Menu's and Copy's buttons pressed, Menu's
\* released, a key pressed
ConcEvents ==
    { PiperEvent(d, BTN_LEFT, p) : d \in Mice, p \in BOOLEAN }
      \cup { PiperEvent(d, BTN_RIGHT, TRUE) : d \in Mice }
      \cup { PiperEvent(Kbd, KEY_A, TRUE) }

\* the next statement of frame L is a UInput.syn() of a run or cleanup function
Flushes(L) == L.pc \in {"m51x", "m67x", "k73x"} /\ Head(L.ops) = Syn

\* the key presses the function watcher o is running has written that are
\* neither released nor committed yet
Unflushed(o) ==
    { c \in frames[o].held : \E j \in DOMAIN kb_frame : kb_frame[j] = << c, 1 >> }

\* one statement of watcher w's handler call, from frame L.  The concurrent
\* runs keep no trace, and of the history only what tells the races: double,
\* this statement invokes a cleanup that another call under way has invoked;
\* raced, this statement records an obligation that a call under way, having
\* cleaned up the previous one, is about to clear; mixed, this statement is a
\* flush that commits a key press another call under way has written
StepOf(w, L) ==
    \E r0 \in { Step(Shared, L, w) } :
        LET invokes == L.pc \in {"m51", "k73"} /\ r0.l.trace # << >>
            double == invokes /\ \E o \in Watchers \ {w} : InCleanup(o) /\ o \in hist.invoked
            raced == L.pc = "m68" /\ \E o \in Watchers \ {w} : InCleanup(o)
            mixed == Flushes(L) /\ \E o \in Watchers \ {w} : Unflushed(o) # {}
        IN  /\ Commit([r0 EXCEPT !.l.trace = << >>, !.l.pre = "None"], w)
            /\ hist' = [InitHist EXCEPT !.invoked = r0.s.hist.invoked,
                                        !.double = double, !.raced = raced,
                                        !.mixed = mixed]
            /\ UNCHANGED << cfg, typed, found, io >>

\* DeviceWatcher.run: an event is read and the callback entered
Arrive == \E w \in Watchers : \E event \in ConcEvents :
             /\ event.device = w
             /\ Listening(w)
             /\ StepOf(w, EnterFrame(EntryPc(w), event, last_action))

\* the next statement of a handler call under way
Proceed == \E w \in Watchers :
              /\ frames[w].pc \notin {"idle", "dead"}
              /\ StepOf(w, frames[w])

NextConc == Arrive \/ Proceed

SpecConc == InitConc /\ [][NextConc]_vars

-----------------------------------------------------------------------------
(* PiperKeyboard.type_string and text_to_ecodes.  A text is a sequence of    *)
(* characters; a character is named by a string.                            *)

\* longest text of the model
MaxLen == 3

KEY_LEFTSHIFT == 42
KEY_H == 35
KEY_I == 23
KEY_1 == 2
KEY_SPACE == 57

\* the characters of the model: letters, a digit, two characters of the
\* mapping, and three characters no key stands for: the letter e with an acute
\* accent, the digit superscript two, and an emoji
Chars == {"H", "i", "a", "1", "!", " ", "e_acute", "sup_two", "emoji"}

\* str.isalpha, str.isupper, str.upper and str.isdigit on those characters:
\* Python classifies by Unicode category, so the accented letter is alphabetic
\* and the superscript digit is a digit
isalpha(ch) == ch \in {"H", "i", "a", "e_acute"}
isupper(ch) == ch \in {"H"}
isdigit(ch) == ch \in {"1", "sup_two"}
upper(ch) == CASE ch = "i" -> "I"
               [] ch = "a" -> "A"
               [] ch = "e_acute" -> "E_acute"
               [] OTHER -> ch

\* the attributes KEY_<name> of evdev.ecodes for the names the model asks for
ecodes == [H |-> KEY_H, I |-> KEY_I, A |-> KEY_A] @@ ("1" :> KEY_1)

\* an item of the list text_to_ecodes returns: an int or a tuple of ints
Item(code) == [tuple |-> FALSE, keys |-> << code >>]
Chord(keys) == [tuple |-> TRUE, keys |-> keys]

\* text_to_ecodes, lines 150-171, for the characters of the model
mapping == (" " :> Item(KEY_SPACE)) @@ ("!" :> Chord(<< KEY_LEFTSHIFT, KEY_1 >>))

\* getattr(ecodes, f"KEY_{name}"), lines 178 and 180
GetKey(name) ==
    IF name \in DOMAIN ecodes THEN [exc |-> "None", items |-> << Item(ecodes[name]) >>]
    ELSE [exc |-> "AttributeError", items |-> << >>]

\* lines 175-184: what one character appends to the result
CharItems(ch) ==
    IF isalpha(ch)
    THEN LET k == GetKey(upper(ch)) IN
         IF isupper(ch) /\ k.exc = "None"
         THEN [k EXCEPT !.items = << Item(KEY_LEFTSHIFT) >> \o @]
         ELSE k
    ELSE IF isdigit(ch) THEN GetKey(ch)
    ELSE IF ch \in DOMAIN mapping THEN [exc |-> "None", items |-> << mapping[ch] >>]
    ELSE [exc |-> "None", items |-> << >>]

\* text_to_ecodes (lines 144-185): the list of items, or the exception raised
RECURSIVE text_to_ecodes(_)
text_to_ecodes(text) ==
    IF text = << >> THEN [exc |-> "None", items |-> << >>]
    ELSE LET c == CharItems(Head(text)) IN
         IF c.exc # "None" THEN c
         ELSE LET r == text_to_ecodes(Tail(text)) IN
              IF r.exc # "None" THEN [exc |-> r.exc, items |-> << >>]
              ELSE [exc |-> "None", items |-> c.items \o r.items]

Reverse(seq) == [i \in 1..Len(seq) |-> seq[Len(seq) + 1 - i]]

RECURSIVE PressAll(_)
PressAll(keys) ==
    IF keys = << >> THEN << >> ELSE press_key(Head(keys), FALSE) \o PressAll(Tail(keys))

RECURSIVE ReleaseAll(_)
ReleaseAll(keys) ==
    IF keys = << >> THEN << >> ELSE release_key(Head(keys), FALSE) \o ReleaseAll(Tail(keys))

\* lines 120-126: the operations for one item
ItemOps(item) ==
    IF item.tuple THEN PressAll(item.keys) \o ReleaseAll(Reverse(item.keys))
    ELSE click_key(item.keys[1], FALSE)

RECURSIVE SequenceOps(_)
SequenceOps(items) ==
    IF items = << >> THEN << >> ELSE ItemOps(Head(items)) \o SequenceOps(Tail(items))

\* type_string (lines 117-127)
type_string(text) ==
    LET sequence == text_to_ecodes(text) IN
    IF sequence.exc # "None" THEN Raises(sequence.exc)
    ELSE Does(SequenceOps(sequence.items) \o << Syn >>)

Texts == UNION { [1..n -> Chars] : n \in 0..MaxLen }

Ready(text) == [text |-> text, state |-> "ready", log |-> << >>, exc |-> "None"]

\* the virtual keyboard after the operations ops
RECURSIVE KbAfter(_, _, _)
KbAfter(keys, frame, ops) ==
    IF ops = << >> THEN [keys |-> keys, frame |-> frame]
    ELSE LET r == KbApply(keys, frame, Head(ops)) IN KbAfter(r.keys, r.frame, Tail(ops))

\* a call kb.type_string(text)
CallTypeString ==
    /\ typed.state = "ready"
    /\ \E r \in { type_string(typed.text) } :
          /\ typed' = [typed EXCEPT !.state = IF r.exc = "None" THEN "returned" ELSE "raised",
                                    !.log = r.ops, !.exc = r.exc]
          /\ \E k \in { KbAfter(kb_keys, kb_frame, r.ops) } :
                kb_keys' = k.keys /\ kb_frame' = k.frame
    /\ UNCHANGED << action_map, config_mode, running, last_key_event, last_mouse_event,
                    last_action, config_file, frames, cfg, hist, found, io >>

InitType ==
    /\ Dispatcher(FALSE, MissingFile, EmptyTable)
    /\ typed \in { Ready(text) : text \in Texts }
    /\ found = Enumerated
    /\ io = [w \in Watchers |-> Watching]

NextType == CallTypeString

SpecType == InitType /\ [][NextType]_vars

-----------------------------------------------------------------------------
(* Enumeration of the input devices: PiperMouse._initialise_devices, then   *)
(* PiperKeyboard._initialise_devices (MicePiper.__init__, lines 32-33).     *)

\* most key codes a device has besides the four the enumerators look for
MaxOther == 59
\* longest list of devices list_devices() returns
MaxDevices == 3

\* n key codes other than BTN_LEFT, BTN_RIGHT, KEY_C and KEY_V
Others(n) == { BTN_RIGHT + k : k \in 1..n }

\* an input device: InputDevice(path) opens it or raises, capabilities() is
\* read or raises; caps holds EV_KEY or not, and key_codes = caps[EV_KEY]
Device(codes) == [open |-> "ok", ev_key |-> TRUE, key_codes |-> codes]
NoKeysDevice == [open |-> "ok", ev_key |-> FALSE, key_codes |-> {}]
FailingDevice(how) == [open |-> how, ev_key |-> FALSE, key_codes |-> {}]

AllDevices ==
    { Device(flags \cup Others(n)) :
        flags \in SUBSET {BTN_LEFT, BTN_RIGHT, KEY_C, KEY_V}, n \in 0..MaxOther }
      \cup {NoKeysDevice, FailingDevice("open_fails"), FailingDevice("capabilities_fails")}

\* a five-button mouse, a 61-key keyboard, a device with the two buttons only,
\* and a device that cannot be opened
SampleDevices ==
    { Device({BTN_LEFT, BTN_RIGHT} \cup Others(3)), Device({KEY_C, KEY_V} \cup Others(59)),
      Device({BTN_LEFT, BTN_RIGHT}), FailingDevice("open_fails") }

\* the lists list_devices() returns in the model
DeviceLists ==
    { << d >> : d \in AllDevices }
      \cup UNION { [1..n -> SampleDevices] : n \in 2..MaxDevices }

\* mutant of IsPointer: two key codes are enough
IsPointer_FromTwo(key_codes) ==
    /\ BTN_LEFT \in key_codes /\ BTN_RIGHT \in key_codes
    /\ 1 < Cardinality(key_codes) /\ Cardinality(key_codes) < 20

\* line 80
IsPointer(key_codes) ==
    /\ BTN_LEFT \in key_codes /\ BTN_RIGHT \in key_codes
    /\ 2 < Cardinality(key_codes) /\ Cardinality(key_codes) < 20

\* line 137
IsKeyboard(key_codes) ==
    /\ KEY_C \in key_codes /\ KEY_V \in key_codes
    /\ Cardinality(key_codes) > 40

\* the test of the enumerator who
Matches(who, key_codes) ==
    IF who = "mouse" THEN IsPointer(key_codes) ELSE IsKeyboard(key_codes)

StartEnum(devices) == [devices |-> devices, who |-> "mouse", i |-> 1, mice |-> {},
                       keyboards |-> {}, exc |-> "None"]

\* one iteration of "for path in list_devices()" (lines 73-85 and 130-142):
\* the device at position i is opened and its capabilities read, either of
\* which may raise OSError, which nothing catches (exc tells it, and who and i
\* where); a device that matches gets a watcher; after the last device the
\* loop ends
Examine(who, next) ==
    /\ found.who = who /\ found.exc = "None"
    /\ IF found.i > Len(found.devices)
       THEN found' = [found EXCEPT !.who = next, !.i = 1]
       ELSE LET dev == found.devices[found.i] IN
            IF dev.open # "ok"
            THEN found' = [found EXCEPT !.exc = "OSError"]
            ELSE IF dev.ev_key /\ Matches(who, dev.key_codes)
                 THEN found' = [found EXCEPT !.i = @ + 1,
                                  !.mice = IF who = "mouse" THEN @ \cup {found.i} ELSE @,
                                  !.keyboards = IF who = "keyboard" THEN @ \cup {found.i} ELSE @]
                 ELSE found' = [found EXCEPT !.i = @ + 1]
    /\ UNCHANGED << action_map, config_mode, running, last_key_event, last_mouse_event,
                    last_action, config_file, kb_keys, kb_frame, frames, cfg, hist,
                    typed, io >>

PiperMouse_initialise_devices == Examine("mouse", "keyboard")

PiperKeyboard_initialise_devices == Examine("keyboard", "done")

InitEnum ==
    /\ Dispatcher(FALSE, MissingFile, EmptyTable)
    /\ typed = NoText
    /\ found \in { StartEnum(devices) : devices \in DeviceLists }
    /\ io = [w \in Watchers |-> Watching]

NextEnum == PiperMouse_initialise_devices \/ PiperKeyboard_initialise_devices

SpecEnum == InitEnum /\ [][NextEnum]_vars

-----------------------------------------------------------------------------
(* The life of a watcher: a failing read ends its loop (DeviceWatcher.run,  *)
(* lines 52-53), stop() sets its flag and closes its device (lines 55-58).  *)

\* most stop() calls on one watcher
MaxStops == 2

\* InputDevice.close() on handle h: an open handle is released, and the call
\* may raise all the same; a closed handle is left alone
close(h) ==
    IF h.fd = "open"
    THEN { [h |-> [h EXCEPT !.fd = "closed", !.released = @ + 1], exc |-> e] :
             e \in {"None", "OSError"} }
    ELSE { [h |-> h, exc |-> "None"] }

\* mutant of stop: the close is not wrapped in suppress(Exception)
stop_NoSuppress(h) ==
    { [c.h EXCEPT !.stops = @ + 1, !.raised = @ \/ c.exc # "None"] :
        c \in close([h EXCEPT !.stop_flag = TRUE]) }

\* DeviceWatcher.stop (lines 55-58): the watcher after the call
stop(h) ==
    { [c.h EXCEPT !.stops = @ + 1] : c \in close([h EXCEPT !.stop_flag = TRUE]) }

\* a call of stop() on watcher w
CallStop(w) ==
    /\ io[w].stops < MaxStops
    /\ \E h \in stop(io[w]) : io' = [io EXCEPT ![w] = h]
    /\ UNCHANGED << action_map, config_mode, running, last_key_event, last_mouse_event,
                    last_action, config_file, kb_keys, kb_frame, frames, cfg, hist,
                    typed, found >>

\* PiperMouse.__del__ / PiperKeyboard.__del__ (lines 87-89, 187-189): w.stop()
stop_watchers == \E w \in Watchers : CallStop(w)

\* DeviceWatcher.__del__ (lines 60-61): self.stop()
DeviceWatcher_del == \E w \in Watchers : CallStop(w)

\* mutant of ReadFails: the watcher goes back to reading
ReadFails_Retry(w) ==
    /\ frames' = frames
    /\ io' = [io EXCEPT ![w].failed = TRUE]

\* lines 38, 52-53: read_loop() raises OSError, run() reports it and returns
ReadFails(w) ==
    /\ frames' = [frames EXCEPT ![w].pc = "ended"]
    /\ io' = [io EXCEPT ![w].failed = TRUE]

\* a read of watcher w's device fails while the watcher is blocked in it
ReadError(w) ==
    /\ frames[w].pc = "idle"
    /\ ReadFails(w)
    /\ hist' = [hist EXCEPT !.after_error = FALSE]
    /\ UNCHANGED << action_map, config_mode, running, last_key_event,
                    last_mouse_event, last_action, config_file, kb_keys, kb_frame,
                    cfg, typed, found >>

read_error == \E w \in Watchers : ReadError(w)

\* the bindings of the runs with failing and stopped watchers
WatchFile ==
    Document([d \in Mice |-> [k \in {StrKey(Str(BTN_LEFT))} |-> "Copy"]])

InitWatch == Construct(FALSE, WatchFile)

NextWatch == on_m_action \/ on_k_action \/ read_error \/ stop_watchers \/ DeviceWatcher_del

SpecWatch == InitWatch /\ [][NextWatch]_vars

-----------------------------------------------------------------------------
(* Startup on a bindings file that is unreadable or not of the expected     *)
(* structure                                                               *)

\* a document whose action_map, or whose entry for mouseA, is no object
MisshapenFiles ==
    { Document(NotADict(v)) : v \in {"5", "['mouseA']"} }
      \cup { Document([d \in {"mouseA"} |-> NotAnEntry(v)]) : v \in {"5", "[272]"} }

BrokenFiles ==
    {MissingFile, UnopenableFile, GarbageFile}
      \cup { JsonFile(value) : value \in JsonValues } \cup MisshapenFiles

\* a well-formed document, for comparison
GoodFile == Document([d \in {"mouseA"} |-> [k \in {StrKey(Str(BTN_LEFT))} |-> "Copy"]])

InitFiles == \E file \in BrokenFiles \cup {GoodFile} : Construct(FALSE, file)

NextFiles == on_m_action \/ on_k_action

SpecFiles == InitFiles /\ [][NextFiles]_vars

-----------------------------------------------------------------------------
(* Every action of the registry bound: one pointer button runs Menu, the    *)
(* other an action that declares no cleanup                                *)

NoCleanupNames == { n \in ActionNames : piper_actions[n].cleanup = "None" }

RegistryFiles ==
    { Document([d \in {"mouseA"} |->
          [k \in {StrKey(Str(BTN_LEFT)), StrKey(Str(BTN_RIGHT))} |->
              IF k = StrKey(Str(BTN_LEFT)) THEN "Menu" ELSE n]]) : n \in NoCleanupNames }

InitRegistry == \E file \in RegistryFiles : Construct(FALSE, file)

NextRegistry == on_m_action \/ on_k_action

SpecRegistry == InitRegistry /\ [][NextRegistry]_vars

-----------------------------------------------------------------------------
(* DeviceWatcher.run, statement by statement: the thread of watcher w is    *)
(* blocked in read_loop() (pc "idle"), has an event in hand before the test *)
(* of the stop flag ("r39"), or has passed the test ("r41").                *)

\* most raw events one watcher reads
MaxRaw == 3

\* the raw events of a pointer: key events of its two buttons with the three
\* key states, and a relative motion
RawEvents(w) ==
    { [type |-> "EV_KEY", code |-> c, value |-> v] :
        c \in {BTN_LEFT, BTN_RIGHT}, v \in {"key_up", "key_down", "key_hold"} }
      \cup { [type |-> "EV_REL", code |-> 0, value |-> "none"] }

\* the watcher whose loop the model follows
LoopWatchers == {"mouseA"}

\* mutant of Normalize: a key that is held counts as pressed
Normalize_HoldPressed(w, raw) == PiperEvent(w, raw.code, raw.value # "key_up")

\* lines 42-50: the PiperEvent made of a raw key event
Normalize(w, raw) == PiperEvent(w, raw.code, raw.value = "key_down")

\* line 38: read_loop() yields the next raw event of the open device
run_read ==
    \E w \in LoopWatchers : \E raw \in RawEvents(w) :
        /\ Alive
        /\ frames[w].pc = "idle" /\ io[w].fd = "open"
        /\ Len(io[w].raw) < MaxRaw
        /\ frames' = [frames EXCEPT ![w].pc = "r39"]
        /\ io' = [io EXCEPT ![w].raw = Append(@, raw)]
        /\ UNCHANGED << action_map, config_mode, running, last_key_event,
                        last_mouse_event, last_action, config_file, kb_keys, kb_frame,
                        cfg, hist, typed, found >>

\* lines 39-40: if self._stop_flag.is_set(): break
run_check_stop ==
    \E w \in LoopWatchers :
        /\ frames[w].pc = "r39"
        /\ frames' = [frames EXCEPT ![w].pc = IF io[w].stop_flag THEN "ended" ELSE "r41"]
        /\ UNCHANGED << action_map, config_mode, running, last_key_event,
                        last_mouse_event, last_action, config_file, kb_keys, kb_frame,
                        cfg, hist, typed, found, io >>

\* lines 41-51: a key event is normalised and the callback called with it;
\* an event of another type is dropped
run_forward ==
    \E w \in LoopWatchers :
        /\ frames[w].pc = "r41"
        /\ LET raw == io[w].raw[Len(io[w].raw)] IN
           IF raw.type = "EV_KEY"
           THEN /\ Callback(w, Normalize(w, raw))
                /\ io' = [io EXCEPT ![w].forwarded = Append(@, Normalize(w, raw))]
           ELSE /\ frames' = [frames EXCEPT ![w].pc = "idle"]
                /\ UNCHANGED << action_map, config_mode, running, last_key_event,
                                last_mouse_event, last_action, config_file, kb_keys,
                                kb_frame, cfg, hist, typed, found, io >>

InitLoop == Construct(FALSE, GoodFile)

NextLoop == run_read \/ run_check_stop \/ run_forward

SpecLoop == InitLoop /\ [][NextLoop]_vars

\* stop() called by the main thread at any point of the loop
stop_during_run == \E w \in LoopWatchers : CallStop(w)

\* the blocked read of the loop fails
run_read_fails == \E w \in LoopWatchers : ReadError(w)

NextStop == NextLoop \/ stop_during_run \/ run_read_fails

SpecStop == InitLoop /\ [][NextStop]_vars

-----------------------------------------------------------------------------
(* Properties                                                               *)

\* the last handler call that ended
Last == hist.disp

\* the positions of the trace whose operation is among ops
At(trace, ops) == { i \in DOMAIN trace : trace[i].op \in ops }

Held(code) == code \in kb_keys

\* C1: a pointer event that finds an action with a cleanup in the slot has that
\* cleanup invoked with the event, first of all, and the slot cleared before
\* the binding lookup and before any run, whether or not the event is bound
C1_CleanupBeforeLookup ==
    (Last.w \in Mice /\ DeclaresCleanup(Last.pre)) =>
        /\ Last.trace # << >>
        /\ Last.trace[1] = Call("cleanup", Last.pre, Last.event)
        /\ Cardinality(At(Last.trace, {"cleanup"})) = 1
        /\ \E c \in At(Last.trace, {"clear"}) :
              \A i \in At(Last.trace, {"lookup", "run", "set"}) : c < i

\* C1 witness: a pointer event of a device with no bindings arrived while Menu
\* was pending: its cleanup ran, the slot is empty and no action ran
C1_Witness ==
    /\ Last.w = "mouseB" /\ Last.pre = "Menu" /\ ~config_mode
    /\ At(Last.trace, {"cleanup"}) # {} /\ At(Last.trace, {"run"}) = {}
    /\ last_action = "None"

\* C2: once an action with a cleanup has run on a press, its cleanup is invoked
\* exactly once before the next run: never twice, and once when the next run
\* begins
C2_CleanupExactlyOnce ==
    /\ hist.trigger.pressed => hist.cleanups <= 1
    /\ hist.prev_cleanups \in {-1, 1}

\* C3: between dispatch calls LEFTALT is held only while Menu is the pending
\* action, and it is not held when an action other than Menu begins to run
C3_NoStuckModifier ==
    /\ Held(KEY_LEFTALT) => last_action = "Menu"
    /\ hist.last_run # "Menu" => ~hist.alt_at_run

\* a step that dispatches the release of the button whose press Menu last ran on
ReleaseOfTrigger ==
    /\ hist.last_run = "Menu" /\ hist.trigger.pressed
    /\ hist'.last_run = "Menu" /\ hist'.trigger = [hist.trigger EXCEPT !.pressed = FALSE]

\* C4: after Menu has run on a press, LEFTALT is not held when the dispatch of
\* that button's release returns, nor when another action's run begins
C4_ModifierReleased ==
    [][ /\ ReleaseOfTrigger => KEY_LEFTALT \notin kb_keys'
        /\ hist'.last_run # "Menu" => ~hist'.alt_at_run ]_vars

\* C5: with overlapping handler calls no pending cleanup is invoked by two
\* callers, and no caller clears an obligation another caller has just recorded
C5_AtomicCleanup == ~hist.double /\ ~hist.raced

\* C23: with overlapping handler calls no flush issued by one action commits a
\* key press, not released yet, that the action of another call has written
C23_FlushOfOneAction == ~hist.mixed

\* C25: in configure mode a pressed X sets running to false and makes
\* configure() return: until it has returned the X stays the last key event,
\* whatever events arrive and wherever the loop is; key releases and, in run
\* mode, all key events set no control signal
C25_ExitHonored ==
    /\ (config_mode /\ ~running /\ Alive) => IsExitKey(last_key_event)
    /\ (config_mode /\ IsExitKey(last_key_event)) => ~running
    /\ last_key_event # NoneEvent => last_key_event.pressed
    /\ ~config_mode => running /\ last_key_event = NoneEvent

\* C6: a keyboard event that finds a cleanup pending has it invoked with None,
\* after which LEFTALT is not held and the slot is empty
C6_KeyboardCleanup ==
    (Last.w = Kbd /\ DeclaresCleanup(Last.pre)) =>
        /\ Last.trace # << >>
        /\ Last.trace[1] = Call("cleanup", Last.pre, NoneEvent)
        /\ ~Held(KEY_LEFTALT)
        /\ last_action = "None"

\* C7: between dispatch calls the slot is empty or holds one registry action,
\* the one run last, and no action was ever recorded over a pending cleanup
C7_SingleSlot ==
    /\ last_action \in ActionNames \cup {"None"}
    /\ last_action # "None" => last_action = hist.last_run
    /\ ~hist.overbooked

\* C7 witness: Menu was pending when a pointer event ran Menu again, and Menu
\* is the one action in the slot
C7_Witness ==
    /\ last_action = "Menu" /\ Last.pre = "Menu"
    /\ At(Last.trace, {"set"}) # {}

\* the keys of a device's entry that stand for button id n, in either form
Stored(entry, n) ==
    { k \in DOMAIN entry : \/ k.kind = "int" /\ k.num = n
                           \/ k.kind = "str" /\ k.str = Str(n) }

\* the name bound to button id n: that of the numeric key if there is one
BoundName(entry, n) ==
    LET ks == Stored(entry, n)
        ints == { k \in ks : k.kind = "int" }
    IN  entry[CHOOSE k \in ks : ints # {} => k \in ints]

IsBound(event) ==
    /\ event.device \in DOMAIN action_map
    /\ Stored(action_map[event.device], event.button_id) # {}

\* C8: in run mode a button stored under its numeric or its string form is
\* resolved, the numeric form first, and the registry action bound to it runs
C8_LookupBothForms ==
    (Last.w \in Mice /\ ~config_mode /\ IsBound(Last.event)) =>
        LET name == BoundName(action_map[Last.event.device], Last.event.button_id) IN
        name \in ActionNames =>
            /\ \E i \in At(Last.trace, {"run"}) : Last.trace[i].name = name
            /\ last_action = name

\* C8 witness: a binding of mouseB, which only configure() can have inserted
\* (under the string form) and save_config persisted, is resolved for an event
\* carrying the numeric id
C8_Witness ==
    /\ Last.w = "mouseB" /\ ~config_mode /\ "mouseB" \in DOMAIN action_map
    /\ StrKey(Str(Last.event.button_id)) \in DOMAIN action_map["mouseB"]
    /\ At(Last.trace, {"run"}) # {}

\* the operations of a trace that write to the virtual device after position i
WritesAfter(trace, i) == { j \in At(trace, {"write", "syn"}) : j > i }

\* C9: a pointer event of an unbound device or button runs no action, raises
\* nothing and leaves no pending cleanup
C9_UnboundNoAction ==
    (Last.w \in Mice /\ ~IsBound(Last.event)) =>
        /\ At(Last.trace, {"run", "set"}) = {}
        /\ Last.exc = "None" /\ Last.returned /\ frames[Last.w].pc = "idle"
        /\ ~DeclaresCleanup(last_action)

\* C9 witness: a button absent from its device's entry arrived in run mode while
\* Menu was pending
C9_Witness ==
    /\ Last.w \in Mice /\ ~config_mode /\ Last.pre = "Menu"
    /\ Last.event.device \in DOMAIN action_map /\ ~IsBound(Last.event)
    /\ At(Last.trace, {"lookup"}) # {}

BoundToUnknown(event) ==
    /\ IsBound(event)
    /\ BoundName(action_map[event.device], event.button_id) \notin ActionNames

\* C10: a binding that names no registry action is a no-op: no run, nothing
\* written to the virtual device after the lookup, no exception, no pending
\* cleanup
C10_UnknownNameNoop ==
    (Last.w \in Mice /\ ~config_mode /\ BoundToUnknown(Last.event)) =>
        /\ At(Last.trace, {"run", "set"}) = {}
        /\ \A i \in At(Last.trace, {"lookup"}) : WritesAfter(Last.trace, i) = {}
        /\ Last.exc = "None" /\ Last.returned /\ frames[Last.w].pc = "idle"
        /\ ~DeclaresCleanup(last_action)

\* C10 witness: a pressed button bound to an unknown name arrived while Menu was
\* pending
C10_Witness ==
    /\ Last.w \in Mice /\ ~config_mode /\ BoundToUnknown(Last.event)
    /\ Last.event.pressed /\ Last.pre = "Menu"
    /\ At(Last.trace, {"lookup"}) # {}

\* C11: in configure mode no event has an action run, whatever its button is
\* bound to, and the slot is empty between dispatch calls; an event that found
\* a cleanup pending had it invoked first
C11_ConfigModeNoRun ==
    config_mode =>
        /\ At(Last.trace, {"run", "set", "lookup"}) = {}
        /\ hist.last_run = "None"
        /\ last_action = "None"
        /\ DeclaresCleanup(Last.pre) =>
              Last.trace # << >> /\ Last.trace[1].op = "cleanup"

\* C11 witness: in configure mode a pressed button bound to Menu was dispatched
\* and the call returned
C11_Witness ==
    /\ config_mode /\ Last.w \in Mice /\ Last.event.pressed /\ Last.returned
    /\ IsBound(Last.event)
    /\ BoundName(action_map[Last.event.device], Last.event.button_id) = "Menu"

\* the names of the actions a trace has run
Ran(trace) == { trace[i].name : i \in At(trace, {"run"}) }

\* C20: after a run-mode dispatch that ran registry action A the slot holds A,
\* so a cleanup is pending exactly if A declares one, and it is A's; an event
\* that finds an action with no cleanup in the slot invokes no cleanup
C20_PendingIffDeclared ==
    /\ \A a \in Ran(Last.trace) :
          /\ Last.returned => last_action = a
          /\ Last.returned => (DeclaresCleanup(last_action) <=> DeclaresCleanup(a))
    /\ ~DeclaresCleanup(Last.pre) => At(Last.trace, {"cleanup"}) = {}

\* C20 witness: a keyboard event arrived after Copy, which declares no cleanup,
\* had run
C20_Witness ==
    /\ Last.w = Kbd /\ Last.pre = "Copy" /\ hist.last_run = "Copy"
    /\ Last.returned /\ last_action = "Copy"

\* the positions of a log where key code is written with value val
Writes(log, code, val) ==
    { j \in DOMAIN log : log[j].op = "write" /\ log[j].code = code /\ log[j].val = val }

\* LEFTSHIFT is held just before position j of the log
ShiftHeldAt(log, j) ==
    \E p \in Writes(log, KEY_LEFTSHIFT, 1) :
        p < j /\ \A q \in Writes(log, KEY_LEFTSHIFT, 0) : q < p \/ q > j

\* what the claim says "Hi!" writes
HiBang ==
    << Write(KEY_LEFTSHIFT, 1), Write(KEY_H, 1), Write(KEY_H, 0), Write(KEY_LEFTSHIFT, 0),
       Write(KEY_I, 1), Write(KEY_I, 0),
       Write(KEY_LEFTSHIFT, 1), Write(KEY_1, 1), Write(KEY_1, 0), Write(KEY_LEFTSHIFT, 0),
       Syn >>

\* C12: type_string("Hi!") writes shift-press, H press and release,
\* shift-release, i press and release, shift-press, 1 press and release,
\* shift-release and one flush; and the key of an uppercase letter is pressed
\* and released while LEFTSHIFT is held
C12_ShiftAroundUppercase ==
    typed.state = "returned" =>
        /\ typed.text = << "H", "i", "!" >> => typed.log = HiBang
        /\ \A j \in Writes(typed.log, KEY_H, 1) \cup Writes(typed.log, KEY_H, 0) :
              ShiftHeldAt(typed.log, j)

\* C13: every call of type_string issues exactly one flush, and it is the last
\* operation on the virtual device
C13_SingleTrailingFlush ==
    typed.state \in {"returned", "raised"} =>
        /\ Cardinality(At(typed.log, {"syn"})) = 1
        /\ typed.log[Len(typed.log)] = Syn

Supported(ch) == ch \notin {"e_acute", "sup_two", "emoji"}

\* C14: type_string raises nothing, and writes what it writes for the text
\* without its unsupported characters
C14_UnsupportedSkipped ==
    typed.state \in {"returned", "raised"} =>
        /\ typed.state = "returned"
        /\ typed.log = type_string(SelectSeq(typed.text, Supported)).ops

\* the devices a pass of the enumeration has examined so far
Examined(who) ==
    IF found.who = who THEN 1..(found.i - 1)
    ELSE IF found.who = "done" \/ (who = "mouse" /\ found.who = "keyboard")
         THEN DOMAIN found.devices
    ELSE {}

Codes(j) == found.devices[j].key_codes

\* C15: a device is taken for a pointer exactly if it has BTN_LEFT and
\* BTN_RIGHT and 3 to 19 key codes, for a keyboard exactly if it has KEY_C and
\* KEY_V and more than 40 key codes, and never for both
C15_Classification ==
    /\ \A j \in Examined("mouse") :
          j \in found.mice <=>
              /\ {BTN_LEFT, BTN_RIGHT} \subseteq Codes(j)
              /\ Cardinality(Codes(j)) \in 3..19
    /\ \A j \in Examined("keyboard") :
          j \in found.keyboards <=>
              /\ {KEY_C, KEY_V} \subseteq Codes(j)
              /\ Cardinality(Codes(j)) >= 41
    /\ found.mice \cap found.keyboards = {}
    /\ found.mice \subseteq Examined("mouse")
    /\ found.keyboards \subseteq Examined("keyboard")

\* C15 witness: of a five-button mouse, a 61-key keyboard and a device with
\* the two buttons only, in one list, the first is a pointer, the second a
\* keyboard and the third neither
C15_Witness ==
    /\ found.who = "done"
    /\ \E m, k, b \in DOMAIN found.devices :
          /\ Codes(m) = {BTN_LEFT, BTN_RIGHT} \cup Others(3) /\ m \in found.mice
          /\ Codes(k) = {KEY_C, KEY_V} \cup Others(59) /\ k \in found.keyboards
          /\ found.devices[b] = Device({BTN_LEFT, BTN_RIGHT})
          /\ b \notin found.mice \cup found.keyboards

\* C16: the enumeration raises nothing, and when it has ended every device that
\* can be opened and matches has a watcher
C16_EnumerationNeverAborts ==
    /\ found.exc = "None"
    /\ found.who = "done" =>
          \A j \in DOMAIN found.devices :
              found.devices[j].open = "ok" =>
                  /\ IsPointer(Codes(j)) => j \in found.mice
                  /\ IsKeyboard(Codes(j)) => j \in found.keyboards

\* C17: no stop() call raises, whether it is the first or a later one and
\* whether or not the watcher is blocked in a read, and once stop() was called
\* the flag is set and the handle closed, having been released exactly once
C17_StopIdempotent ==
    \A w \in Watchers :
        /\ ~io[w].raised
        /\ io[w].released <= 1
        /\ io[w].stops >= 1 =>
              io[w].stop_flag /\ io[w].fd = "closed" /\ io[w].released = 1

\* C17 witness: stop() was called twice on a watcher blocked in its read
C17_Witness ==
    \E w \in Mice :
        io[w].stops = 2 /\ frames[w].pc = "idle" /\ ~io[w].failed /\ io[w].released = 1

\* C18: a watcher whose read failed has left its loop for good and forwards no
\* event again; the failure changes nothing of the other watchers nor of the
\* dispatcher, which goes on running
C18_FailureIsolated ==
    /\ [](\A w \in Watchers : io[w].failed => frames[w].pc = "ended")
    /\ [][\A w \in Watchers :
            /\ io[w].failed => (hist'.disp # hist.disp => hist'.disp.w # w)
            /\ (~io[w].failed /\ io'[w].failed) =>
                  /\ \A o \in Watchers \ {w} : frames'[o] = frames[o] /\ io'[o] = io[o]
                  /\ running' = running /\ last_action' = last_action]_vars

\* C18 witness: after the read of one pointer failed, an event of the other
\* pointer was dispatched and ran its action
C18_Witness ==
    \E w \in Mice :
        /\ io[w].failed /\ frames[w].pc = "ended"
        /\ hist.after_error /\ Last.w \in Mice \ {w}
        /\ At(Last.trace, {"run"}) # {}

\* C19: with a bindings file that is missing, cannot be opened, is no JSON, or
\* is not an object holding an object of objects under action_map, startup
\* does not fail, and no pointer event runs an action or raises
C19_BrokenFileAsEmpty ==
    config_file \in BrokenFiles =>
        /\ cfg.pc # "raised"
        /\ \A w \in Watchers : frames[w].pc # "dead"
        /\ Last.w \in Mice =>
              At(Last.trace, {"run"}) = {} /\ Last.exc = "None" /\ Last.returned

\* a step that is a dispatch call which only ran an action declaring no cleanup
RanNoCleanupOnly ==
    /\ hist'.disp # hist.disp
    /\ At(hist'.disp.trace, {"cleanup"}) = {}
    /\ Ran(hist'.disp.trace) # {}
    /\ \A a \in Ran(hist'.disp.trace) : ~DeclaresCleanup(a)

\* C21: the run of an action that declares no cleanup leaves the keys held
\* as they were before the call, and if it wrote anything its last operation
\* is a flush, nothing being left unflushed when the dispatch call returns
C21_NeutralWithoutCleanup ==
    [][RanNoCleanupOnly =>
          /\ kb_keys' = kb_keys
          /\ kb_frame' = << >>
          /\ LET t == hist'.disp.trace IN
              At(t, {"write"}) # {} => t[Len(t) - 1] = Syn]_vars

\* the raw events of watcher w that its loop has dealt with
Processed(w) ==
    IF frames[w].pc \in {"r39", "r41"} THEN SubSeq(io[w].raw, 1, Len(io[w].raw) - 1)
    ELSE io[w].raw

IsKeyType(raw) == raw.type = "EV_KEY"

\* what the claim says is forwarded for raw events raws
RECURSIVE Canonical(_, _)
Canonical(w, raws) ==
    IF raws = << >> THEN << >>
    ELSE IF Head(raws).type = "EV_KEY"
         THEN << [device |-> w, button_id |-> Head(raws).code,
                  pressed |-> Head(raws).value = "key_down"] >> \o Canonical(w, Tail(raws))
         ELSE Canonical(w, Tail(raws))

\* C22: a watcher has forwarded one event for every raw key event it dealt
\* with, in the order read, and none for other raw events; each carries the
\* watcher's device, the raw code, and pressed exactly for key-down
C22_OneEventPerKeyEvent ==
    \A w \in Watchers : io[w].forwarded = Canonical(w, Processed(w))

\* C22 witness: a pointer read a key-down, a motion and a key-hold, and
\* forwarded two events
C22_Witness ==
    /\ frames["mouseA"].pc = "idle"
    /\ Len(io["mouseA"].raw) = 3
    /\ io["mouseA"].raw[1].value = "key_down"
    /\ io["mouseA"].raw[2].type = "EV_REL"
    /\ io["mouseA"].raw[3].value = "key_hold"
    /\ Len(io["mouseA"].forwarded) = 2

\* C24: once stop() has returned for a watcher, the watcher calls its callback
\* for no further event
C24_NoCallbackAfterStop ==
    [][\A w \in Watchers :
          io[w].stops > 0 => io'[w].forwarded = io[w].forwarded]_vars

====
